---- MODULE Spec2Model ----
(***************************************************************************)
(* Peripheral Reset and Enable Control (src/src/rcc/rec.rs).               *)
(*                                                                         *)
(* The RCC register file is a set of words of labelled bits and fields.    *)
(* Every mutating operation is interrupt::free(|_| reg.modify(..)): the    *)
(* PRIMASK is read, interrupts are masked, each modify reads the whole     *)
(* word and writes the whole word back with one field changed, and the     *)
(* PRIMASK is restored.  One core runs a main context and an interrupt     *)
(* handler that preempts it wherever PRIMASK is clear and runs each of its *)
(* operations to completion before main resumes.  Tokens are values that   *)
(* are moved: out of a Registry slot, into a call, and back.               *)
(***************************************************************************)
EXTENDS Naturals, Sequences, FiniteSets

VARIABLES
    regs,      \* the RCC register file: register id -> word (label -> value)
    primask,   \* TRUE when interrupts are masked (PRIMASK set)
    pc,        \* per context: position inside the operation in progress
    frame,     \* per context: the operation in progress (NoOp when idle)
    idx,       \* per context: index of the modify in progress in the closure
    saved,     \* per context: TRUE when PRIMASK was clear on entry of free()
    tmp,       \* per context: the word last read by the call in progress
    alog,      \* per context: the register accesses of the call in progress
    recs,      \* the Registries created: sequence of (peripheral -> slot full)
    held,      \* per peripheral: number of tokens held outside any Registry
    got,       \* the outcome of the most recent selector read
    shadow,    \* history: the initial register file with, for every write
               \* made since, the written field replaced by the written value
    lastSel,   \* history: per selector field, the selector last written
    handedOff, \* history: groups of which a member token has left its slot
    lastLpm,   \* history: per (Auto) peripheral, the mode of the most
               \* recent completed low_power() call
    steps,     \* number of calls and token moves made so far
    budget,    \* number of calls and token moves the behaviour may make
    scope      \* the peripherals whose tokens the application uses; the
               \* other tokens stay in their slots

vars == <<regs, primask, pc, frame, idx, saved, tmp, alog,
          recs, held, got, shadow, lastSel, handedOff, lastLpm, steps, budget,
          scope>>

\* ------------------------------------------------------------- bounds

\* Calls and token moves explored in one behaviour of Spec.
MaxSteps == 2

\* Calls and token moves explored in one behaviour of SpecGroup.
MaxGroupSteps == 3

\* Calls explored in one behaviour of SpecRead.
MaxReadSteps == 1

\* Calls and token moves explored in one behaviour of SpecSteal.
MaxStealSteps == 2

\* Registries created in one behaviour of SpecSteal.
MaxRecs == 2

\* Calls and token moves explored in one behaviour of SpecLive.
MaxLiveSteps == 2

\* Calls and token moves explored in one behaviour of SpecMux.
MaxMuxSteps == 3

\* ---------------------------------------------------- peripheral table

Ctx == {"main", "irq"}

\* A representative part of the table: three peripherals of one bus word
\* outside D3 (two of them members of one group, one with its own selector
\* that has a reserved pattern) and one of a D3 bus word (with its own
\* fully specified selector), and one of another bus whose own selector
\* lies in the word of the first three.
Periphs == {"I2c1", "I2c2", "Cec", "I2c4", "Rng"}

\* The tokens the application uses unless stated otherwise.
CoreTokens == {"I2c1", "I2c2", "Cec", "I2c4"}

\* A peripheral of the table whose bits lie in the same words and whose
\* token stays unused in its slot.
Unused == {"Vref"}

\* $AXBn of each peripheral.
Bus(p) ==
    IF p \in {"I2c1", "I2c2", "Cec"} THEN "apb1l"
    ELSE IF p = "Rng" THEN "ahb2"
    ELSE "apb4"

Buses == {Bus(p) : p \in Periphs}

OnBus(b) == {p \in Periphs \cup Unused : Bus(p) = b}

\* Peripherals declared with (Auto).
IsAuto(p) == p \in {"I2c4", "Vref"}

AutoPeriphs == {p \in Periphs \cup Unused : IsAuto(p)}

\* [kernel clk: $pk $ccip]: the selector fields a peripheral owns alone.
KernelFields(p) ==
    IF p = "Cec" THEN {"cecsel"}
    ELSE IF p = "I2c4" THEN {"i2c4sel"}
    ELSE IF p = "Rng" THEN {"rngsel"}
    ELSE {}

\* [group clk: $pk_g]: the selector field a peripheral shares, if any.
GroupFields(p) == IF p \in {"I2c1", "I2c2"} THEN {"i2c123sel"} ELSE {}

Groups == UNION {GroupFields(p) : p \in Periphs}

Members(g) == {p \in Periphs : g \in GroupFields(p)}

Fields == Groups \cup UNION {KernelFields(p) : p \in Periphs}

\* $ccip of each selector field.
Ccip(f) == IF f = "i2c4sel" THEN "d3ccip" ELSE "d2ccip2"

CcipRegs == {Ccip(f) : f \in Fields}

\* Fields declared with (Variant): the PAC leaves bit patterns reserved.
HasVariant(f) == f = "cecsel"

\* The PAC's enumerations $pk SEL_A with the bit pattern of each selector.
SelCode(f) ==
    IF f = "cecsel"
    THEN [LSE |-> 0, LSI |-> 1, CSI_KER |-> 2]
    ELSE IF f = "i2c4sel"
    THEN [RCC_PCLK4 |-> 0, PLL3_R |-> 1, HSI_KER |-> 2, CSI_KER |-> 3]
    ELSE IF f = "rngsel"
    THEN [HSI48 |-> 0, PLL1_Q |-> 1, LSE |-> 2, LSI |-> 3]
    ELSE [RCC_PCLK1 |-> 0, PLL3_R |-> 1, HSI_KER |-> 2, CSI_KER |-> 3]

Sels(f) == DOMAIN SelCode(f)

\* Every bit pattern of a selector field (two bits wide).
FieldBits == 0 .. 3

\* ----------------------------------------------------------- registers

EnR(b)   == b \o "enr"
RstR(b)  == b \o "rstr"
LpenR(b) == b \o "lpenr"
AmR      == "d3amr"
CcipR(r) == r \o "r"

RegIds ==
    {EnR(b) : b \in Buses} \cup {RstR(b) : b \in Buses}
    \cup {LpenR(b) : b \in Buses} \cup {AmR} \cup {CcipR(r) : r \in CcipRegs}

\* The labels of the bits or fields of a register word.
Labels(r) ==
    IF r = AmR THEN AutoPeriphs
    ELSE IF \E x \in CcipRegs : r = CcipR(x) THEN {f \in Fields : CcipR(Ccip(f)) = r}
    ELSE {p \in Periphs \cup Unused : r \in {EnR(Bus(p)), RstR(Bus(p)), LpenR(Bus(p))}}

LowPowerMode == {"Off", "Enabled", "Autonomous"}

Bit(b) == IF b THEN 1 ELSE 0

\* ---------------------------------------------------------- operations

NoOp == [kind |-> "none", p |-> "none", fld |-> "none", arg |-> "none", rec |-> 0]

TokenOp(k, p, f, a) == [kind |-> k, p |-> p, fld |-> f, arg |-> a, rec |-> 0]

\* .bit(lpm != LowPowerMode::Off)
LpenVal(lpm) == Bit(lpm # "Off")

\* Mutant of AmenVal: AMEN written with the LPEN condition.
AmenValAsLpen(lpm) == Bit(lpm # "Off")

\* .bit(lpm == LowPowerMode::Autonomous)
AmenVal(lpm) == Bit(lpm = "Autonomous")

\* Mutant of Encode: the selector written to a field one bit wide.
EncodeOneBit(f, sel) == SelCode(f)[sel] % 2

\* .variant(sel): the bit pattern written for a selector.
Encode(f, sel) == SelCode(f)[sel]

Val(s) == [tag |-> "Val", sel |-> s, raw |-> {}]
Res(b) == [tag |-> "Res", sel |-> "none", raw |-> {b}]
Plain(s) == [tag |-> "Plain", sel |-> s, raw |-> {}]

\* Mutant of Decode: the enumeration lacks the source of the last pattern,
\* which reads as reserved.
DecodeLosesLast(f, bits) ==
    IF bits # 3 /\ \E s \in Sels(f) : SelCode(f)[s] = bits
    THEN LET s == CHOOSE x \in Sels(f) : SelCode(f)[x] = bits
         IN  IF HasVariant(f) THEN Val(s) ELSE Plain(s)
    ELSE Res(bits)

\* Mutant of Decode: a reserved pattern reads as one of the sources.
DecodeFabricates(f, bits) ==
    LET s == CHOOSE x \in Sels(f) :
                 SelCode(f)[x] = bits % Cardinality(Sels(f))
    IN  IF HasVariant(f) THEN Val(s) ELSE Plain(s)

\* .variant() of a field read: the enumerated source whose code the bits
\* are; for a field with reserved patterns Val(source) or Res(bits).
Decode(f, bits) ==
    IF \E s \in Sels(f) : SelCode(f)[s] = bits
    THEN LET s == CHOOSE x \in Sels(f) : SelCode(f)[x] = bits
         IN  IF HasVariant(f) THEN Val(s) ELSE Plain(s)
    ELSE Res(bits)

\* One reg.modify(|_, w| w.field().bit(val)) of a closure.
Mod(r, l, v) == [reg |-> r, lab |-> l, val |-> v]

\* Mutant of Body: reset() sets the reset bit and never clears it.
BodyResetNoClear(op) ==
    IF op.kind = "enable" THEN <<Mod(EnR(Bus(op.p)), op.p, 1)>>
    ELSE IF op.kind = "disable" THEN <<Mod(EnR(Bus(op.p)), op.p, 0)>>
    ELSE IF op.kind = "reset" THEN <<Mod(RstR(Bus(op.p)), op.p, 1)>>
    ELSE IF op.kind = "low_power"
    THEN <<Mod(LpenR(Bus(op.p)), op.p, LpenVal(op.arg))>>
         \o (IF IsAuto(op.p) THEN <<Mod(AmR, op.p, AmenVal(op.arg))>> ELSE <<>>)
    ELSE IF op.kind \in {"kernel_mux", "group_mux"}
    THEN <<Mod(CcipR(Ccip(op.fld)), op.fld, Encode(op.fld, op.arg))>>
    ELSE <<>>

\* Mutant of Body: reset() also clears the enable bit.
BodyResetDisables(op) ==
    IF op.kind = "enable" THEN <<Mod(EnR(Bus(op.p)), op.p, 1)>>
    ELSE IF op.kind = "disable" THEN <<Mod(EnR(Bus(op.p)), op.p, 0)>>
    ELSE IF op.kind = "reset"
    THEN <<Mod(RstR(Bus(op.p)), op.p, 1), Mod(EnR(Bus(op.p)), op.p, 0),
           Mod(RstR(Bus(op.p)), op.p, 0)>>
    ELSE IF op.kind = "low_power"
    THEN <<Mod(LpenR(Bus(op.p)), op.p, LpenVal(op.arg))>>
         \o (IF IsAuto(op.p) THEN <<Mod(AmR, op.p, AmenVal(op.arg))>> ELSE <<>>)
    ELSE IF op.kind \in {"kernel_mux", "group_mux"}
    THEN <<Mod(CcipR(Ccip(op.fld)), op.fld, Encode(op.fld, op.arg))>>
    ELSE <<>>

\* Mutant of Body: low_power() modifies d3amr for every peripheral.
BodyAmrAlways(op) ==
    IF op.kind = "enable" THEN <<Mod(EnR(Bus(op.p)), op.p, 1)>>
    ELSE IF op.kind = "disable" THEN <<Mod(EnR(Bus(op.p)), op.p, 0)>>
    ELSE IF op.kind = "reset"
    THEN <<Mod(RstR(Bus(op.p)), op.p, 1), Mod(RstR(Bus(op.p)), op.p, 0)>>
    ELSE IF op.kind = "low_power"
    THEN <<Mod(LpenR(Bus(op.p)), op.p, LpenVal(op.arg)),
           Mod(AmR, op.p, AmenVal(op.arg))>>
    ELSE IF op.kind \in {"kernel_mux", "group_mux"}
    THEN <<Mod(CcipR(Ccip(op.fld)), op.fld, Encode(op.fld, op.arg))>>
    ELSE <<>>

\* The modify calls inside the closure given to interrupt::free, in order.
Body(op) ==
    IF op.kind = "enable" THEN <<Mod(EnR(Bus(op.p)), op.p, 1)>>
    ELSE IF op.kind = "disable" THEN <<Mod(EnR(Bus(op.p)), op.p, 0)>>
    ELSE IF op.kind = "reset"
    THEN <<Mod(RstR(Bus(op.p)), op.p, 1), Mod(RstR(Bus(op.p)), op.p, 0)>>
    ELSE IF op.kind = "low_power"
    THEN <<Mod(LpenR(Bus(op.p)), op.p, LpenVal(op.arg))>>
         \o (IF IsAuto(op.p) THEN <<Mod(AmR, op.p, AmenVal(op.arg))>> ELSE <<>>)
    ELSE IF op.kind \in {"kernel_mux", "group_mux"}
    THEN <<Mod(CcipR(Ccip(op.fld)), op.fld, Encode(op.fld, op.arg))>>
    ELSE <<>>

\* Mutant of NewWord: reg.write instead of reg.modify, the other bits of
\* the word written as zero.
NewWordWrite(w, l, v) == [x \in DOMAIN w |-> IF x = l THEN v ELSE 0]

\* The word a modify writes: the word it read with one field replaced.
NewWord(w, l, v) == [w EXCEPT ![l] = v]

\* ------------------------------------------------------------- tokens

\* Mutant of RecComplete: the setter borrows a partially moved Registry.
RecCompleteAny(i) == i \in DOMAIN recs

\* Mutant of RecComplete: the setter needs the tokens of the members of
\* the groups only.
RecCompleteMembers(i) ==
    \A p \in Periphs : GroupFields(p) # {} => recs[i][p]

\* Every slot of Registry i holds its token.
RecComplete(i) == \A p \in Periphs : recs[i][p]

\* Registry i is exclusively borrowed by a group setter in progress.
Borrowed(i) == \E c \in Ctx : frame[c].kind = "group_mux" /\ frame[c].rec = i

\* Tokens of p in calls in progress.
InCall(p) == Cardinality({c \in Ctx : frame[c].p = p})

InSlots(p) == Cardinality({i \in DOMAIN recs : recs[i][p]})

\* The number of live tokens of peripheral p.
Tokens(p) == InSlots(p) + held[p] + InCall(p)

\* ------------------------------------------------------ initial state

NoGot == [p |-> "none", fld |-> "none", val |-> Res(0), after |-> "none"]

\* The word of register r before the first operation: reset bits clear,
\* the other bits and fields all clear or all set, as the hardware or
\* earlier code left them.
InitWord(r, fill) ==
    [l \in Labels(r) |->
        IF \E b \in Buses : r = RstR(b) THEN 0
        ELSE IF \E x \in CcipRegs : r = CcipR(x) THEN 3 * fill
        ELSE fill]

\* PeripheralREC::new_singleton(): every slot holds its token.
new_singleton == [p \in Periphs |-> TRUE]

\* The state after construction but for the register file and PRIMASK:
\* no call in progress, one Registry, b calls or moves to make on the
\* tokens of s.
InitRest(b, s) ==
    /\ pc = [c \in Ctx |-> "idle"]
    /\ frame = [c \in Ctx |-> NoOp]
    /\ idx = [c \in Ctx |-> 0]
    /\ saved = [c \in Ctx |-> FALSE]
    /\ tmp = [c \in Ctx |-> <<>>]
    /\ alog = [c \in Ctx |-> <<>>]
    /\ recs = <<new_singleton>>
    /\ held = [p \in Periphs |-> 0]
    /\ got = NoGot
    /\ lastSel = [f \in Fields |-> "none"]
    /\ handedOff = {}
    /\ lastLpm = [p \in AutoPeriphs |-> "none"]
    /\ steps = 0
    /\ budget = b
    /\ scope = s

InitState(b) ==
    /\ \E fill \in {0, 1} : regs = [r \in RegIds |-> InitWord(r, fill)]
    /\ shadow = regs
    /\ primask = FALSE
    /\ InitRest(b, CoreTokens)

Init == InitState(MaxSteps)

\* ------------------------------------------------------- preemption

\* Mutant of CanRun: the other context is not held off by PRIMASK, as a
\* second core would not be.
CanRunUnmasked(c) ==
    IF c = "irq" THEN TRUE
    ELSE pc["irq"] = "idle"

\* Context c executes the next step.  The handler is entered wherever
\* PRIMASK is clear and finishes the operation it is in; main runs while
\* the handler is not inside an operation.
CanRun(c) ==
    IF c = "irq" THEN pc["irq"] # "idle" \/ ~primask
    ELSE pc["irq"] = "idle"

\* ------------------------------------------------------- token moves

\* Mutant of Take: the token is copied, the slot stays full.
TakeCopy(c, i, p) ==
    /\ CanRun(c) /\ pc[c] = "idle" /\ steps < budget
    /\ p \in scope /\ recs[i][p] /\ ~Borrowed(i)
    /\ held' = [held EXCEPT ![p] = @ + 1]
    /\ handedOff' = handedOff \cup GroupFields(p)
    /\ steps' = steps + 1
    /\ UNCHANGED <<regs, primask, pc, frame, idx, saved, tmp, alog, recs,
                   got, shadow, lastSel, budget, scope, lastLpm>>

\* Moving the token out of its pub slot of Registry i (a use of the moved
\* field is rejected until it is assigned again).
Take(c, i, p) ==
    /\ CanRun(c) /\ pc[c] = "idle" /\ steps < budget
    /\ p \in scope /\ recs[i][p] /\ ~Borrowed(i)
    /\ recs' = [recs EXCEPT ![i][p] = FALSE]
    /\ held' = [held EXCEPT ![p] = @ + 1]
    /\ handedOff' = handedOff \cup GroupFields(p)
    /\ steps' = steps + 1
    /\ UNCHANGED <<regs, primask, pc, frame, idx, saved, tmp, alog,
                   got, shadow, lastSel, budget, scope, lastLpm>>

\* Assigning a held token to the empty pub slot it came from.
PutBack(c, i, p) ==
    /\ CanRun(c) /\ pc[c] = "idle" /\ steps < budget
    /\ held[p] > 0 /\ ~recs[i][p] /\ ~Borrowed(i)
    /\ recs' = [recs EXCEPT ![i][p] = TRUE]
    /\ held' = [held EXCEPT ![p] = @ - 1]
    /\ steps' = steps + 1
    /\ UNCHANGED <<regs, primask, pc, frame, idx, saved, tmp, alog,
                   got, shadow, lastSel, handedOff, budget, scope, lastLpm>>

\* ------------------------------------------------ Registry creation

\* Mutant of steal_peripheral_rec: the call hands out only the tokens
\* that are not live yet.
steal_only_missing(c) ==
    /\ CanRun(c) /\ pc[c] = "idle" /\ Len(recs) < MaxRecs
    /\ recs' = Append(recs, [p \in Periphs |-> Tokens(p) = 0])
    /\ UNCHANGED <<regs, primask, pc, frame, idx, saved, tmp, alog, held, got,
                   shadow, lastSel, handedOff, lastLpm, steps, budget, scope>>

\* Rcc::steal_peripheral_rec(&self): PeripheralREC::new_singleton() once
\* more, no check made, a second Registry with every slot full.
steal_peripheral_rec(c) ==
    /\ CanRun(c) /\ pc[c] = "idle" /\ Len(recs) < MaxRecs
    /\ recs' = Append(recs, new_singleton)
    /\ UNCHANGED <<regs, primask, pc, frame, idx, saved, tmp, alog, held, got,
                   shadow, lastSel, handedOff, lastLpm, steps, budget, scope>>

\* --------------------------------------------------- calls of operations

\* Entry of a method taking self by value: the token moves into the call,
\* from the caller's hands (i = 0) or straight out of its slot of Registry
\* i (ccdr.peripheral.FDCAN.enable()), and interrupt::free reads PRIMASK.
CallToken(c, i, op) ==
    /\ CanRun(c) /\ pc[c] = "idle" /\ steps < budget
    /\ op.p \in scope
    /\ IF i = 0
       THEN /\ held[op.p] > 0
            /\ held' = [held EXCEPT ![op.p] = @ - 1]
            /\ UNCHANGED <<recs, handedOff>>
       ELSE /\ recs[i][op.p] /\ ~Borrowed(i)
            /\ recs' = [recs EXCEPT ![i][op.p] = FALSE]
            /\ handedOff' = handedOff \cup GroupFields(op.p)
            /\ UNCHANGED held
    /\ frame' = [frame EXCEPT ![c] = op]
    /\ saved' = [saved EXCEPT ![c] = ~primask]
    /\ pc' = [pc EXCEPT ![c] = "cpsid"]
    /\ idx' = [idx EXCEPT ![c] = 1]
    /\ alog' = [alog EXCEPT ![c] = <<>>]
    /\ steps' = steps + 1
    /\ UNCHANGED <<regs, primask, tmp, got, shadow, lastSel, budget, scope, lastLpm>>

enable(c, i, p) == CallToken(c, i, TokenOp("enable", p, "none", "none"))

disable(c, i, p) == CallToken(c, i, TokenOp("disable", p, "none", "none"))

reset(c, i, p) == CallToken(c, i, TokenOp("reset", p, "none", "none"))

low_power(c, i, p, lpm) ==
    CallToken(c, i, TokenOp("low_power", p, "none", lpm))

kernel_mux(c, i, p, f, sel) ==
    /\ f \in KernelFields(p)
    /\ CallToken(c, i, TokenOp("kernel_mux", p, f, sel))

\* PeripheralREC::kernel_<g>_clk_mux(&mut self, sel): the whole Registry is
\* borrowed exclusively, which a partially moved Registry does not allow.
group_mux(c, i, g, sel) ==
    /\ CanRun(c) /\ pc[c] = "idle" /\ steps < budget
    /\ RecComplete(i) /\ ~Borrowed(i)
    /\ frame' = [frame EXCEPT ![c] =
                    [kind |-> "group_mux", p |-> "none", fld |-> g,
                     arg |-> sel, rec |-> i]]
    /\ saved' = [saved EXCEPT ![c] = ~primask]
    /\ pc' = [pc EXCEPT ![c] = "cpsid"]
    /\ idx' = [idx EXCEPT ![c] = 1]
    /\ alog' = [alog EXCEPT ![c] = <<>>]
    /\ steps' = steps + 1
    /\ UNCHANGED <<regs, primask, tmp, recs, held, got, shadow,
                   lastSel, handedOff, budget, scope, lastLpm>>

\* The token of p can be borrowed: it is held, or it is in a slot of a
\* Registry that is not exclusively borrowed.
CanBorrow(p) ==
    \/ held[p] > 0
    \/ \E i \in DOMAIN recs : recs[i][p] /\ ~Borrowed(i)

\* get_kernel_<clk>_mux(&self) and <Group>ClkSelGetter::get_kernel_clk_mux:
\* one unsynchronized read of the ccip register, no critical section.
get_kernel_mux(c, p, f) ==
    /\ CanRun(c) /\ pc[c] = "idle" /\ steps < budget
    /\ f \in KernelFields(p) \cup GroupFields(p)
    /\ p \in scope /\ CanBorrow(p)
    /\ got' = [p |-> p, fld |-> f,
               val |-> Decode(f, regs[CcipR(Ccip(f))][f]),
               after |-> lastSel[f]]
    /\ steps' = steps + 1
    /\ UNCHANGED <<regs, primask, pc, frame, idx, saved, tmp, alog,
                   recs, held, shadow, lastSel, handedOff, budget, scope, lastLpm>>

\* ------------------------------------------- steps of interrupt::free

\* The modify the call of context c is at.
Cur(c) == Body(frame[c])[idx[c]]

\* Mutant of Cpsid: the closure runs with the interrupts left as they are.
CpsidMissing(c) ==
    /\ CanRun(c) /\ pc[c] = "cpsid"
    /\ pc' = [pc EXCEPT ![c] = "read"]
    /\ UNCHANGED <<regs, primask, frame, idx, saved, tmp, alog, recs, held,
                   got, shadow, lastSel, handedOff, steps, budget, scope, lastLpm>>

\* interrupt::free: disable() masks interrupts before the closure runs.
Cpsid(c) ==
    /\ CanRun(c) /\ pc[c] = "cpsid"
    /\ primask' = TRUE
    /\ pc' = [pc EXCEPT ![c] = "read"]
    /\ UNCHANGED <<regs, frame, idx, saved, tmp, alog, recs, held,
                   got, shadow, lastSel, handedOff, steps, budget, scope, lastLpm>>

\* reg.modify: the read of the whole word.
ModifyRead(c) ==
    /\ CanRun(c) /\ pc[c] = "read"
    /\ tmp' = [tmp EXCEPT ![c] = regs[Cur(c).reg]]
    /\ alog' = [alog EXCEPT ![c] =
                   Append(@, [acc |-> "read", reg |-> Cur(c).reg,
                              lab |-> Cur(c).lab, val |-> 0])]
    /\ pc' = [pc EXCEPT ![c] = "write"]
    /\ UNCHANGED <<regs, primask, frame, idx, saved, recs, held,
                   got, shadow, lastSel, handedOff, steps, budget, scope, lastLpm>>

\* Mutant of ModifyWrite: one critical section for each modify, the
\* interrupts enabled again after every write.
ModifyWriteThenEnable(c) ==
    /\ CanRun(c) /\ pc[c] = "write"
    /\ regs' = [regs EXCEPT ![Cur(c).reg] =
                   NewWord(tmp[c], Cur(c).lab, Cur(c).val)]
    /\ alog' = [alog EXCEPT ![c] =
                   Append(@, [acc |-> "write", reg |-> Cur(c).reg,
                              lab |-> Cur(c).lab, val |-> Cur(c).val])]
    /\ lastSel' = IF frame[c].kind \in {"kernel_mux", "group_mux"}
                  THEN [lastSel EXCEPT ![frame[c].fld] = frame[c].arg]
                  ELSE lastSel
    /\ idx' = [idx EXCEPT ![c] = @ + 1]
    /\ pc' = [pc EXCEPT ![c] =
                 IF idx[c] < Len(Body(frame[c])) THEN "read" ELSE "restore"]
    /\ shadow' = [shadow EXCEPT ![Cur(c).reg][Cur(c).lab] = Cur(c).val]
    /\ primask' = ~saved[c]
    /\ UNCHANGED <<frame, saved, tmp, recs, held, got, handedOff, steps,
                   budget, scope, lastLpm>>

\* reg.modify: the write of the whole word, one field replaced; then the
\* next modify of the closure, or its end.
ModifyWrite(c) ==
    /\ CanRun(c) /\ pc[c] = "write"
    /\ regs' = [regs EXCEPT ![Cur(c).reg] =
                   NewWord(tmp[c], Cur(c).lab, Cur(c).val)]
    /\ alog' = [alog EXCEPT ![c] =
                   Append(@, [acc |-> "write", reg |-> Cur(c).reg,
                              lab |-> Cur(c).lab, val |-> Cur(c).val])]
    /\ lastSel' = IF frame[c].kind \in {"kernel_mux", "group_mux"}
                  THEN [lastSel EXCEPT ![frame[c].fld] = frame[c].arg]
                  ELSE lastSel
    /\ idx' = [idx EXCEPT ![c] = @ + 1]
    /\ pc' = [pc EXCEPT ![c] =
                 IF idx[c] < Len(Body(frame[c])) THEN "read" ELSE "restore"]
    /\ shadow' = [shadow EXCEPT ![Cur(c).reg][Cur(c).lab] = Cur(c).val]
    /\ UNCHANGED <<primask, frame, saved, tmp, recs, held, got, handedOff,
                   steps, budget, scope, lastLpm>>

\* Mutant of Return: interrupt::free ends with enable() unconditionally.
ReturnAlwaysEnable(c) ==
    /\ CanRun(c) /\ pc[c] = "restore"
    /\ primask' = FALSE
    /\ held' = IF frame[c].p \in Periphs
               THEN [held EXCEPT ![frame[c].p] = @ + 1]
               ELSE held
    /\ frame' = [frame EXCEPT ![c] = NoOp]
    /\ idx' = [idx EXCEPT ![c] = 0]
    /\ saved' = [saved EXCEPT ![c] = FALSE]
    /\ alog' = [alog EXCEPT ![c] = <<>>]
    /\ tmp' = [tmp EXCEPT ![c] = <<>>]
    /\ pc' = [pc EXCEPT ![c] = "idle"]
    /\ lastLpm' = IF frame[c].kind = "low_power" /\ IsAuto(frame[c].p)
                  THEN [lastLpm EXCEPT ![frame[c].p] = frame[c].arg]
                  ELSE lastLpm
    /\ UNCHANGED <<regs, recs, got, shadow, lastSel, handedOff, steps, budget,
                   scope>>

\* interrupt::free: enable() only if the interrupts were active on entry;
\* then the method returns self: the token is the caller's again.
Return(c) ==
    /\ CanRun(c) /\ pc[c] = "restore"
    /\ primask' = IF saved[c] THEN FALSE ELSE primask
    /\ held' = IF frame[c].p \in Periphs
               THEN [held EXCEPT ![frame[c].p] = @ + 1]
               ELSE held
    /\ frame' = [frame EXCEPT ![c] = NoOp]
    /\ idx' = [idx EXCEPT ![c] = 0]
    /\ saved' = [saved EXCEPT ![c] = FALSE]
    /\ alog' = [alog EXCEPT ![c] = <<>>]
    /\ tmp' = [tmp EXCEPT ![c] = <<>>]
    /\ pc' = [pc EXCEPT ![c] = "idle"]
    /\ lastLpm' = IF frame[c].kind = "low_power" /\ IsAuto(frame[c].p)
                  THEN [lastLpm EXCEPT ![frame[c].p] = frame[c].arg]
                  ELSE lastLpm
    /\ UNCHANGED <<regs, recs, got, shadow, lastSel, handedOff, steps, budget,
                   scope>>

\* ------------------------------------------------------ specification

\* Where a call takes its token from: the caller (0) or a Registry.
Src == {0} \cup DOMAIN recs

Next ==
    \/ \E c \in Ctx, i \in DOMAIN recs, p \in Periphs : Take(c, i, p)
    \/ \E c \in Ctx, i \in DOMAIN recs, p \in Periphs : PutBack(c, i, p)
    \/ \E c \in Ctx, i \in Src, p \in Periphs : enable(c, i, p)
    \/ \E c \in Ctx, i \in Src, p \in Periphs : disable(c, i, p)
    \/ \E c \in Ctx, i \in Src, p \in Periphs : reset(c, i, p)
    \/ \E c \in Ctx, i \in Src, p \in Periphs, lpm \in LowPowerMode :
          low_power(c, i, p, lpm)
    \/ \E c \in Ctx, i \in Src, p \in Periphs, f \in Fields :
          \E sel \in Sels(f) : kernel_mux(c, i, p, f, sel)
    \/ \E c \in Ctx, i \in DOMAIN recs, g \in Groups :
          \E sel \in Sels(g) : group_mux(c, i, g, sel)
    \/ \E c \in Ctx, p \in Periphs, f \in Fields : get_kernel_mux(c, p, f)
    \/ \E c \in Ctx : Cpsid(c)
    \/ \E c \in Ctx : ModifyRead(c)
    \/ \E c \in Ctx : ModifyWrite(c)
    \/ \E c \in Ctx : Return(c)

Spec == Init /\ [][Next]_vars

\* The shared-mux protocol alone, explored deeper: the token moves, the
\* selector writes and reads, and enable() for the other operations.
InitGroup == InitState(MaxGroupSteps)

NextGroup ==
    \/ \E c \in Ctx, i \in DOMAIN recs, p \in Periphs : Take(c, i, p)
    \/ \E c \in Ctx, i \in DOMAIN recs, p \in Periphs : PutBack(c, i, p)
    \/ \E c \in Ctx, i \in Src, p \in Periphs : enable(c, i, p)
    \/ \E c \in Ctx, i \in Src, p \in Periphs, f \in Fields :
          \E sel \in Sels(f) : kernel_mux(c, i, p, f, sel)
    \/ \E c \in Ctx, i \in DOMAIN recs, g \in Groups :
          \E sel \in Sels(g) : group_mux(c, i, g, sel)
    \/ \E c \in Ctx, p \in Periphs, f \in Fields : get_kernel_mux(c, p, f)
    \/ \E c \in Ctx : Cpsid(c)
    \/ \E c \in Ctx : ModifyRead(c)
    \/ \E c \in Ctx : ModifyWrite(c)
    \/ \E c \in Ctx : Return(c)

SpecGroup == InitGroup /\ [][NextGroup]_vars

\* The selector reads over every content of the clock-selection words:
\* each selector field starts with any bit pattern, as the hardware or
\* code outside this module left it; mux setters and getters run.
InitRead ==
    /\ \E w \in [Fields -> FieldBits] :
           regs = [r \in RegIds |->
                      [l \in Labels(r) |-> IF l \in Fields THEN w[l] ELSE 0]]
    /\ shadow = regs
    /\ primask = FALSE
    /\ InitRest(MaxReadSteps, {"Cec", "I2c4", "I2c1"})

NextRead ==
    \/ \E c \in Ctx, i \in Src, p \in Periphs, f \in Fields :
          \E sel \in Sels(f) : kernel_mux(c, i, p, f, sel)
    \/ \E c \in Ctx, i \in DOMAIN recs, g \in Groups :
          \E sel \in Sels(g) : group_mux(c, i, g, sel)
    \/ \E c \in Ctx, p \in Periphs, f \in Fields : get_kernel_mux(c, p, f)
    \/ \E c \in Ctx : Cpsid(c)
    \/ \E c \in Ctx : ModifyRead(c)
    \/ \E c \in Ctx : ModifyWrite(c)
    \/ \E c \in Ctx : Return(c)

SpecRead == InitRead /\ [][NextRead]_vars

\* The module with the unsafe creation entry point called again: every
\* operation, on the tokens of one or of two Registries.
InitSteal ==
    /\ \E fill \in {0, 1} : regs = [r \in RegIds |-> InitWord(r, fill)]
    /\ shadow = regs
    /\ primask = FALSE
    /\ InitRest(MaxStealSteps, {"I2c1", "Cec", "I2c4"})

NextSteal ==
    \/ \E c \in Ctx : steal_peripheral_rec(c)
    \/ Next

SpecSteal == InitSteal /\ [][NextSteal]_vars

\* The next instruction of the call context c is in.
Step(c) == Cpsid(c) \/ ModifyRead(c) \/ ModifyWrite(c) \/ Return(c)

\* Every operation, called with the interrupts enabled or from inside a
\* critical section of the caller, each context executing the call it is
\* in whenever it can run.
InitLive ==
    /\ \E fill \in {0, 1} : regs = [r \in RegIds |-> InitWord(r, fill)]
    /\ shadow = regs
    /\ primask \in BOOLEAN
    /\ InitRest(MaxLiveSteps, {"I2c1", "I2c4"})

SpecLive == InitLive /\ [][Next]_vars /\ \A c \in Ctx : WF_vars(Step(c))

\* The selector fields of one word, d2ccip2: the tokens of Cec and Rng,
\* each with its own field, and of I2c1, member of the group whose field
\* the Registry sets.
InitMux ==
    /\ \E fill \in {0, 1} : regs = [r \in RegIds |-> InitWord(r, fill)]
    /\ shadow = regs
    /\ primask = FALSE
    /\ InitRest(MaxMuxSteps, {"Cec", "Rng", "I2c1"})

SpecMux == InitMux /\ [][NextGroup]_vars

\* ================================================================ claims

\* The enable bit of peripheral p.
EnBit(p) == regs[EnR(Bus(p))][p]

\* Context c is past the last write of a call of kind k.
Wrote(c, k) == frame[c].kind = k /\ pc[c] = "restore"

\* The behaviour started from the all-clear register file: the bits of
\* the unused peripheral keep their initial value.
FromClear == regs[EnR("apb4")]["Vref"] = 0

\* C1: every step of a call of enable() or disable() on P changes at most
\* P's enable bit, to set for enable() and to clear for disable(), and no
\* other bit of any register; when the call has written, P's bit is set
\* after enable() and clear after disable().
C1_EnableDisableExact ==
    /\ [](\A c \in Ctx :
            /\ Wrote(c, "enable") => EnBit(frame[c].p) = 1
            /\ Wrote(c, "disable") => EnBit(frame[c].p) = 0)
    /\ [][\A c \in Ctx :
            (frame[c].kind \in {"enable", "disable"} /\ pc'[c] # pc[c]) =>
                \/ regs' = regs
                \/ regs' = [regs EXCEPT ![EnR(Bus(frame[c].p))][frame[c].p] =
                                Bit(frame[c].kind = "enable")]]_vars

\* C1 witness: disable() has cleared a peripheral's bit that an earlier
\* enable() had set from the all-clear word.
C1_Witness ==
    \E c \in Ctx :
        /\ Wrote(c, "disable") /\ FromClear
        /\ tmp[c][frame[c].p] = 1
        /\ EnBit(frame[c].p) = 0

\* C2: for distinct peripherals X and Y of one enable word, whenever the
\* last write meant for X's bit set it (enable) and the last write meant
\* for Y's bit cleared it (disable), in whichever context and interleaving
\* the two ran, the word has X's bit set and Y's bit clear: neither
\* read-modify-write put a stale value over the other's bit.
C2_NoLostEnableBit ==
    \A x \in Periphs, y \in Periphs :
        (x # y /\ Bus(x) = Bus(y)
         /\ shadow[EnR(Bus(x))][x] = 1 /\ shadow[EnR(Bus(y))][y] = 0)
        => (EnBit(x) = 1 /\ EnBit(y) = 0)

\* C2 witness: the handler has run disable() on Y to its write while main
\* is inside enable() on X of the same word, preempted before it masked
\* the interrupts.
C2_Witness ==
    /\ frame["main"].kind = "enable" /\ pc["main"] = "cpsid"
    /\ Wrote("irq", "disable")
    /\ frame["main"].p # frame["irq"].p
    /\ Bus(frame["main"].p) = Bus(frame["irq"].p)
    /\ tmp["irq"][frame["irq"].p] = 1 /\ EnBit(frame["irq"].p) = 0

\* The writes among the register accesses of the call of context c.
Writes(c) == SelectSeq(alog[c], LAMBDA a : a.acc = "write")

\* The reset bit of peripheral p.
RstBit(p) == regs[RstR(Bus(p))][p]

\* Context c is inside reset(), after the write that set the bit and
\* before the write that clears it.
InPulse(c) ==
    frame[c].kind = "reset" /\ idx[c] = 2 /\ pc[c] \in {"read", "write"}

\* C3: reset() on P makes exactly two writes, both to P's reset bit, set
\* then clear; from a register file with all reset bits clear, a reset
\* bit is set only between those two writes of its own reset(), so every
\* reset bit is clear before and after each call and no call changes
\* another peripheral's reset bit.
C3_ResetPulse ==
    /\ \A c \in Ctx : Wrote(c, "reset") =>
           Writes(c) = <<[acc |-> "write", reg |-> RstR(Bus(frame[c].p)),
                          lab |-> frame[c].p, val |-> 1],
                         [acc |-> "write", reg |-> RstR(Bus(frame[c].p)),
                          lab |-> frame[c].p, val |-> 0]>>
    /\ \A b \in Buses : \A q \in OnBus(b) :
           regs[RstR(b)][q] = 1 =>
               \E c \in Ctx : InPulse(c) /\ frame[c].p = q

\* C3 witness: a reset() has made its two writes and the bit is clear.
C3_Witness ==
    \E c \in Ctx :
        /\ Wrote(c, "reset") /\ Len(Writes(c)) = 2
        /\ tmp[c][frame[c].p] = 1 /\ RstBit(frame[c].p) = 0

\* C4: while a reset bit is set, the interrupts are masked and only the
\* context inside that reset() can take a step: the handler never runs,
\* and so never reads the register, at a point where the bit is set.
C4_PulseMasked ==
    \A c \in Ctx :
        (frame[c].kind = "reset" /\ RstBit(frame[c].p) = 1) =>
            /\ primask
            /\ \A d \in Ctx \ {c} : ~CanRun(d)

\* C4 witness: main is inside reset() with the bit set and the handler,
\* which is idle, cannot be entered.
C4_Witness ==
    /\ InPulse("main") /\ RstBit(frame["main"].p) = 1
    /\ pc["irq"] = "idle" /\ ~CanRun("irq")

\* The low-power enable bit and the autonomous mode bit of p.
LpenBit(p) == regs[LpenR(Bus(p))][p]
AmenBit(p) == regs[AmR][p]

\* C5: after low_power(mode) on P, P's LPEN bit is set iff mode is not
\* Off and, for P declared (Auto), P's AMEN bit is set iff mode is
\* Autonomous; every other bit of the low-power enable words and of the
\* autonomous mode register holds the value last written to it, or its
\* initial value.
C5_LowPowerBits ==
    /\ \A c \in Ctx : Wrote(c, "low_power") =>
           /\ LpenBit(frame[c].p) = 1 <=> frame[c].arg # "Off"
           /\ frame[c].p \in {"I2c4", "Vref"} =>
                  (AmenBit(frame[c].p) = 1 <=> frame[c].arg = "Autonomous")
    /\ \A b \in Buses : regs[LpenR(b)] = shadow[LpenR(b)]
    /\ regs[AmR] = shadow[AmR]

\* C5 witness: low_power(Enabled) on an (Auto) peripheral has cleared an
\* AMEN bit that was set, with LPEN set.
C5_Witness ==
    \E c \in Ctx :
        /\ Wrote(c, "low_power") /\ frame[c].arg = "Enabled"
        /\ frame[c].p \in {"I2c4", "Vref"}
        /\ tmp[c][frame[c].p] = 1
        /\ AmenBit(frame[c].p) = 0 /\ LpenBit(frame[c].p) = 1

\* C6: low_power() on a peripheral not declared (Auto) makes no access to
\* d3amr, which keeps its content, and low_power(Autonomous) makes the one
\* write low_power(Enabled) makes: P's LPEN bit set in the word it read.
C6_NoAmrForNonAuto ==
    /\ \A c \in Ctx :
           (frame[c].kind = "low_power" /\ frame[c].p \in {"I2c1", "I2c2", "Cec"}) =>
               /\ \A k \in DOMAIN alog[c] : alog[c][k].reg # AmR
               /\ (pc[c] = "restore" /\ frame[c].arg \in {"Enabled", "Autonomous"}) =>
                      /\ Len(Writes(c)) = 1
                      /\ regs[LpenR(Bus(frame[c].p))] =
                            [tmp[c] EXCEPT ![frame[c].p] = 1]
    /\ regs[AmR] = shadow[AmR]

\* C6 witness: low_power(Autonomous) on a peripheral that is not (Auto)
\* has set an LPEN bit that was clear.
C6_Witness ==
    \E c \in Ctx :
        /\ Wrote(c, "low_power") /\ frame[c].arg = "Autonomous"
        /\ frame[c].p \in {"I2c1", "I2c2", "Cec"}
        /\ tmp[c][frame[c].p] = 0 /\ LpenBit(frame[c].p) = 1

\* The bits of selector field f.
FieldOf(f) == regs[CcipR(Ccip(f))][f]

\* C7: a read of a selector field a peripheral owns alone, made after a
\* set of that field with selector sel and no later set of it, returns
\* sel (as Val(sel) for the field with a reserved pattern), whatever the
\* field held before and whatever other calls ran in between.
C7_KernelMuxRoundTrip ==
    (got.fld \in {"cecsel", "i2c4sel"} /\ got.after # "none") =>
        got.val = IF got.fld = "cecsel" THEN Val(got.after)
                  ELSE Plain(got.after)

\* C7 witness: after kernel_mux(LSI) on Cec, whose field held the reserved
\* pattern, the read returned Val(LSI).
C7_Witness ==
    /\ got.p = "Cec" /\ got.after = "LSI" /\ got.val = Val("LSI")
    /\ ~FromClear

\* C8: a read of a group's selector field through any member, made after
\* the Registry's setter wrote selector sel and before the setter's next
\* write, returns sel, whatever other calls ran in between.
C8_GroupMuxReadBack ==
    (got.fld \in Groups /\ got.after # "none") =>
        /\ got.p \in Members(got.fld)
        /\ got.val = Plain(got.after)

\* C8 witness: after the group setter wrote CSI_KER and member I2c1 left
\* the Registry, the read through sibling I2c2 returned CSI_KER.
C8_Witness ==
    /\ got.p = "I2c2" /\ got.fld = "i2c123sel"
    /\ got.after = "CSI_KER" /\ got.val = Plain("CSI_KER")
    /\ ~recs[1]["I2c1"] /\ FromClear

\* C9 as claimed: once a member token of group G has left its slot, no
\* step changes G's selector field.
C9_FrozenAfterHandOff ==
    [][\A g \in Groups : g \in handedOff => FieldOf(g)' = FieldOf(g)]_vars

\* Some member token of group g is out of its slot of the Registry.
MemberOut(g) == \E p \in Members(g) : ~recs[1][p]

\* C9 as amended: while a member token of group G is out of its slot, no
\* step changes G's selector field.
C9_FrozenWhileOut ==
    [][\A g \in Groups : MemberOut(g) => FieldOf(g)' = FieldOf(g)]_vars

\* C9 witness: with the selector set by the group setter and member I2c1
\* out of its slot, a sibling's read returned the selector set.
C9_Witness ==
    /\ MemberOut("i2c123sel") /\ held["I2c1"] = 1
    /\ lastSel["i2c123sel"] = "HSI_KER"
    /\ got.p = "I2c2" /\ got.val = Plain("HSI_KER")

Rmws(c) == Len(Writes(c))

\* C11 as claimed: every read and write of a modify runs with the
\* interrupts masked, and no critical section holds more than one
\* read-modify-write.
C11_OneRmwPerSection ==
    \A c \in Ctx :
        /\ pc[c] \in {"read", "write", "restore"} => primask
        /\ Rmws(c) <= 1

\* C11 as amended: every read and write of a modify runs with the
\* interrupts masked, from the first read of the call to its return; a
\* call is one critical section that holds all its read-modify-writes:
\* two for reset() and for low_power() on an (Auto) peripheral, one for
\* every other call.
C11_WritesMasked ==
    \A c \in Ctx :
        /\ pc[c] \in {"read", "write", "restore"} => primask
        /\ pc[c] = "cpsid" => Rmws(c) = 0
        /\ pc[c] = "restore" =>
               Rmws(c) = IF \/ frame[c].kind = "reset"
                            \/ frame[c].kind = "low_power"
                               /\ frame[c].p \in {"I2c4", "Vref"}
                         THEN 2 ELSE 1

\* C11 witness: main is at the write of the second modify of low_power()
\* on an (Auto) peripheral, its first write made, the interrupts masked
\* since before the first read.
C11_Witness ==
    /\ frame["main"].kind = "low_power" /\ frame["main"].p = "I2c4"
    /\ pc["main"] = "write" /\ Rmws("main") = 1 /\ primask
    /\ pc["irq"] = "idle"

\* The step is a selector read: a call that is made in one step and moves
\* no token.
GetStep == steps' = steps + 1 /\ pc' = pc /\ recs' = recs

\* C12: whatever the register holds, a selector read returns a value made
\* from the bits of its field: for a field with every pattern defined the
\* source whose code is the bits; for the field with a reserved pattern
\* Val(source) when the bits are the code of a source, and Res(bits) with
\* the bits themselves when they are not.
C12_ReadDecodes ==
    [][GetStep =>
          LET f    == got'.fld
              bits == FieldOf(f)
              v    == got'.val
          IN  /\ f \in Fields
              /\ IF f = "cecsel"
                 THEN IF bits \in {0, 1, 2}
                      THEN /\ v.tag = "Val" /\ v.sel \in Sels(f)
                           /\ SelCode(f)[v.sel] = bits
                      ELSE v = [tag |-> "Res", sel |-> "none", raw |-> {bits}]
                 ELSE /\ v.tag = "Plain" /\ v.sel \in Sels(f)
                      /\ SelCode(f)[v.sel] = bits]_vars

\* C12 witness: no selector was ever written by this module, the words
\* hold patterns found there, and the read of Cec's field, which holds
\* the reserved pattern, returned Res(3).
C12_Witness ==
    /\ got.fld = "cecsel" /\ got.val = Res(3) /\ got.after = "none"
    /\ FieldOf("i2c4sel") = 1 /\ FieldOf("i2c123sel") = 2
    /\ \A f \in Fields : lastSel[f] = "none"

\* C13: creation has no guard and adds a complete token set each time:
\* after n creations there are n live tokens of every peripheral, a
\* further creation is possible in every state a caller can run in, and
\* a complete Registry can run a group setter whatever tokens have left
\* the other Registry.
C13_StealUnguarded ==
    /\ \A p \in Periphs : Tokens(p) = Len(recs)
    /\ \A c \in Ctx :
           (CanRun(c) /\ pc[c] = "idle" /\ Len(recs) < MaxRecs) =>
               ENABLED steal_peripheral_rec(c)
    /\ \A c \in Ctx, i \in DOMAIN recs, g \in Groups :
           (CanRun(c) /\ pc[c] = "idle" /\ steps < budget
            /\ RecComplete(i) /\ ~Borrowed(i)) =>
               ENABLED group_mux(c, i, g, "PLL3_R")

\* C13 witness: two tokens of I2c1 are live, one taken out of the first
\* Registry and held, and the group setter called through the second
\* Registry has changed the field the held token's peripheral runs from.
C13_Witness ==
    /\ Len(recs) = 2 /\ Tokens("I2c1") = 2
    /\ ~recs[1]["I2c1"] /\ held["I2c1"] = 1
    /\ \E c \in Ctx :
           /\ Wrote(c, "group_mux") /\ frame[c].rec = 2
           /\ frame[c].fld = "i2c123sel"
           /\ tmp[c]["i2c123sel"] # FieldOf("i2c123sel")

\* C14: a call in progress never waits: while some call is in progress
\* some context in a call can take its next step, and under weak fairness
\* of each context every call that started returns, after at most two
\* read-modify-writes; free() saves the mask state it is entered with and
\* the return leaves the mask in that state, so a call entered with the
\* interrupts masked returns with them masked.
C14_TerminatesMaskRestored ==
    /\ []((\E c \in Ctx : pc[c] # "idle") =>
             (\E c \in Ctx : pc[c] # "idle" /\ CanRun(c)))
    /\ [](\A c \in Ctx : Len(alog[c]) <= 4)
    /\ \A c \in Ctx : (pc[c] # "idle") ~> (pc[c] = "idle")
    /\ [][\A c \in Ctx :
            /\ (pc[c] = "idle" /\ pc'[c] # "idle") => saved'[c] = ~primask
            /\ (pc[c] # "idle" /\ pc'[c] = "idle") => primask' = ~saved[c]]_vars

\* C14 witness: low_power(Autonomous) was called on I2c4 with the
\* interrupts masked by the caller, made its two writes and returned the
\* token; the interrupts are still masked and no call is in progress.
C14_Witness ==
    /\ primask /\ \A c \in Ctx : pc[c] = "idle"
    /\ held["I2c4"] = 1 /\ ~recs[1]["I2c4"]
    /\ steps = 2 /\ lastLpm["I2c4"] = "Autonomous"
    /\ LpenBit("I2c4") = 1 /\ AmenBit("I2c4") = 1 /\ FromClear

\* C15: in every state, whatever setters of different fields of a
\* clock-selection word ran and however the handler's calls fell between
\* the steps of main's, each field that was set holds the code of the
\* selector of the last set of that field and each field never set holds
\* its initial pattern.
C15_FieldsIndependent ==
    \A f \in Fields :
        FieldOf(f) = IF lastSel[f] # "none" THEN SelCode(f)[lastSel[f]]
                     ELSE IF FromClear THEN 0 ELSE 3

\* C15 witness: main is inside the set of Cec's field, preempted before it
\* masked the interrupts; the handler has set Rng's field in the same word
\* from the all-clear word; the group's field, set before by the
\* Registry's setter, holds what the setter wrote.
C15_Witness ==
    /\ frame["main"].kind = "kernel_mux" /\ frame["main"].fld = "cecsel"
    /\ pc["main"] = "cpsid"
    /\ Wrote("irq", "kernel_mux") /\ frame["irq"].fld = "rngsel"
    /\ frame["irq"].arg = "LSE" /\ FieldOf("rngsel") = 2
    /\ tmp["irq"]["rngsel"] = 0 /\ FromClear
    /\ lastSel["i2c123sel"] = "HSI_KER" /\ FieldOf("i2c123sel") = 2

\* The registers a call of the given kind may change, by the claim.
OwnRegs(op) ==
    IF op.kind \in {"enable", "disable"} THEN {Bus(op.p) \o "enr"}
    ELSE IF op.kind = "reset" THEN {Bus(op.p) \o "rstr"}
    ELSE IF op.kind = "low_power"
    THEN {Bus(op.p) \o "lpenr"}
         \cup (IF op.p \in {"I2c4", "Vref"} THEN {"d3amr"} ELSE {})
    ELSE IF op.kind \in {"kernel_mux", "group_mux"}
    THEN {IF op.fld = "i2c4sel" THEN "d3ccipr" ELSE "d2ccip2r"}
    ELSE {}

\* C16: a step of a call changes no register but those of the call's
\* kind: the bus enable word for enable() and disable(), the bus reset
\* word for reset(), the low-power enable word and for an (Auto)
\* peripheral d3amr for low_power(), the clock-selection word for a mux
\* setter; a selector read, made in one step, changes no register and
\* leaves the interrupt mask alone; when reset() has written, the reset
\* word is the word it read with P's bit clear.
C16_OperationFrames ==
    /\ [][/\ \A c \in Ctx : pc'[c] # pc[c] =>
                \A r \in RegIds : regs'[r] # regs[r] => r \in OwnRegs(frame[c])
          /\ pc' = pc => (regs' = regs /\ primask' = primask)]_vars
    /\ [](\A c \in Ctx : Wrote(c, "reset") =>
             regs[RstR(Bus(frame[c].p))] = [tmp[c] EXCEPT ![frame[c].p] = 0])

\* C16 witness: reset() on Cec has made its writes in a register file
\* with every other bit set: Cec's enable bit, low-power bit and selector
\* are what they were.
C16_Witness ==
    \E c \in Ctx :
        /\ Wrote(c, "reset") /\ frame[c].p = "Cec" /\ ~FromClear
        /\ RstBit("Cec") = 0 /\ EnBit("Cec") = 1 /\ LpenBit("Cec") = 1
        /\ FieldOf("cecsel") = 3

\* The LPEN and AMEN bits that stand for a low-power mode.
PairOf(lpm) ==
    IF lpm = "Off" THEN <<0, 0>>
    ELSE IF lpm = "Enabled" THEN <<1, 0>>
    ELSE <<1, 1>>

\* C17: wherever the interrupts are not masked, so that a handler can
\* run, a call of low_power() in progress has written nothing yet, and
\* for the (Auto) peripheral P, once a low_power() on P has completed, the
\* pair (LPEN, AMEN) of P is the pair of the mode of the most recent
\* completed call, with AMEN set only if LPEN is set.
C17_LowPowerPairAtomic ==
    ~primask =>
        /\ \A c \in Ctx : frame[c].kind = "low_power" => Rmws(c) = 0
        /\ lastLpm["I2c4"] # "none" =>
               /\ <<LpenBit("I2c4"), AmenBit("I2c4")>> = PairOf(lastLpm["I2c4"])
               /\ AmenBit("I2c4") = 1 => LpenBit("I2c4") = 1

\* C17 witness: low_power(Enabled) on I2c4 has completed in a register
\* file where both bits were set, and the handler is running: it finds
\* LPEN set and AMEN clear.
C17_Witness ==
    /\ lastLpm["I2c4"] = "Enabled" /\ ~FromClear
    /\ pc["irq"] = "cpsid" /\ ~primask
    /\ LpenBit("I2c4") = 1 /\ AmenBit("I2c4") = 0

\* C18: with one token set or with two aliased ones, in every state every
\* bit and field of every register holds the value of the last write
\* that targeted it, or its initial value if none did: no write of one
\* call puts a stale value over what another call wrote.
C18_NoLostUpdateAliased ==
    \A r \in RegIds : \A l \in Labels(r) : regs[r][l] = shadow[r][l]

\* C18 witness: two tokens of I2c1 exist and both are inside calls: main
\* is in enable(), preempted before it masked the interrupts, and the
\* handler's disable() through the aliased token has cleared the bit.
C18_Witness ==
    /\ Len(recs) = 2 /\ InCall("I2c1") = 2
    /\ frame["main"].kind = "enable" /\ pc["main"] = "cpsid"
    /\ Wrote("irq", "disable")
    /\ tmp["irq"]["I2c1"] = 1 /\ EnBit("I2c1") = 0

\* A call of the setter of group g through the Registry is possible for
\* context c.
SetterReachable(c, g) == ENABLED group_mux(c, 1, g, "PLL3_R")

\* C19: the setter of a group can be called only while every slot of the
\* Registry holds its token, the slots of peripherals outside the group
\* included; and whenever every token is in its slot, a context that can
\* make a call can call it.
C19_LockoutWholeRegistry ==
    \A c \in Ctx, g \in Groups :
        /\ SetterReachable(c, g) => \A p \in Periphs : recs[1][p]
        /\ (/\ \A p \in Periphs : recs[1][p]
            /\ CanRun(c) /\ \A d \in Ctx : pc[d] = "idle"
            /\ steps < budget) => SetterReachable(c, g)

\* C19 witness: the token of Cec, member of no group, is out of its slot,
\* every other token is in its slot, main could make a call, and the
\* group setter that ran before cannot be called.
C19_Witness ==
    /\ held["Cec"] = 1 /\ \A p \in Periphs \ {"Cec"} : recs[1][p]
    /\ \A c \in Ctx : pc[c] = "idle"
    /\ steps < budget /\ ~primask
    /\ lastSel["i2c123sel"] = "CSI_KER"
    /\ ~SetterReachable("main", "i2c123sel")

====
